---- MODULE Spec2Model ----
(***************************************************************************)
(* A model of backup.py (borg-auto-backup): the LiveTail terminal renderer *)
(* and the command-driving code around it (stream_command, archive_info,  *)
(* clear_all, do_backup, do_restore, main).                               *)
(*                                                                         *)
(* Text is modelled as sequences of one-character strings.  Standard      *)
(* output is modelled as the sequence of things written to it: text,      *)
(* newlines, and the two ANSI controls the code uses (cursor-up "ESC[nF"  *)
(* and clear-line "ESC[2K").  The terminal itself (wrapping of rows wider *)
(* than the window, scrolling) and I/O errors or signals raised inside    *)
(* library calls are outside the source and are not modelled.             *)
(***************************************************************************)
EXTENDS Integers, Sequences, FiniteSets, TLC

VARIABLES
    \* environment
    tty,          \* sys.stdout.isatty()
    \* the LiveTail object
    lines,        \* self.lines
    buf,          \* self.buf (deque, oldest first)
    percent,      \* self.percent: None or Some(digit string)
    ansi,         \* self.ansi
    out,          \* what this LiveTail has written to sys.stdout so far
    received,     \* history: the arguments of the update calls so far
    finished,     \* history: number of finish() calls on this LiveTail
    \* the program
    pc,           \* position of main / the running operation
    sc,           \* position inside stream_command ("idle" when not in it)
    mode,         \* which of --list/--backup/--restore/--clear-all was given
    all_mode,     \* args.all
    docker,       \* do_backup's local: Docker was active and has been stopped
    dockerActive, \* whether the docker service is running
    child,        \* the child process: "none", "running", "closed", "exited"
    childCode,    \* the exit code the child ended with
    pipe,         \* lines written by the child and not yet read
    emitted,      \* history: lines the child has written, in order
    line,         \* the loop variable of stream_command's for loop
    returncode,   \* proc.returncode: None or Some(code)
    exitStatus,   \* the program's exit status: None or Some(status)
    answer,       \* the last line read by input(): None or Some(text)
    log           \* history: calls and commands, in order

tailVars == <<lines, buf, percent, ansi, out, received, finished>>
progVars == <<pc, sc, mode, all_mode, docker, dockerActive, child, childCode,
              pipe, emitted, line, returncode, exitStatus, answer, log>>
vars == <<tty, tailVars, progVars>>

----------------------------------------------------------------------------
(* Bounds of the model *)

\* tail heights 1..MaxN are explored
MaxN == 2
\* update calls per LiveTail in the harness specification
MaxCalls == 3
\* lines a child process writes per command
MaxChildLines == 2

(* Program constants *)

\* LiveTail.__init__'s default tail height
DefaultLines == 5
\* the display width tail rows are cut to
TruncWidth == 160
\* the most digits the percentage pattern takes
MaxDigits == 3

----------------------------------------------------------------------------
(* Text helpers *)

None == << >>
Some(x) == <<x>>

NL == "\n"
Digits == {"0", "1", "2", "3", "4", "5", "6", "7", "8", "9"}
Whitespace == {" ", "\t", "\n"}

Last(s) == s[Len(s)]
Front(s) == SubSeq(s, 1, Len(s) - 1)
Take(s, n) == SubSeq(s, 1, IF Len(s) < n THEN Len(s) ELSE n)
Repeat(x, n) == [i \in 1..n |-> x]

\* str.rstrip("\n"): every trailing newline is removed, nothing else
RECURSIVE rstrip(_)
rstrip(s) ==
    IF Len(s) > 0 /\ Last(s) = NL THEN rstrip(Front(s)) ELSE s

\* a mutated emptiness test: no line counts as empty
IsEmptyNever(s) == FALSE

\* "if not line": the early return's condition
IsEmpty(s) == Len(s) = 0

\* the pattern (\d{1,3})% tried at position i with the greedy count k first,
\* then k-1, ... (backtracking); None when no count fits
RECURSIVE match_at(_, _, _)
match_at(s, i, k) ==
    IF k < 1 THEN None
    ELSE IF /\ i + k <= Len(s)
            /\ \A j \in i..(i + k - 1) : s[j] \in Digits
            /\ s[i + k] = "%"
         THEN Some(SubSeq(s, i, i + k - 1))
         ELSE match_at(s, i, k - 1)

\* the positions of s at which the pattern with at most k digits matches
match_starts(s, k) == {i \in 1..Len(s) : match_at(s, i, k) # None}

\* re.search scans left to right: the match at the first matching position
search(s, k) ==
    LET starts == match_starts(s, k) IN
    IF starts = {} THEN None
    ELSE match_at(s, CHOOSE i \in starts : \A j \in starts : i <= j, k)

\* a mutated search: the pattern (\d)% instead of (\d{1,3})%
re_search_one(s) == search(s, 1)

\* m = re.search(r"(\d{1,3})%", line); m.group(1) when it matched
re_search(s) == search(s, MaxDigits)

\* a mutated append: a full deque drops the new line
append_keep_old(d, x, maxlen) ==
    IF Len(d) < maxlen THEN Append(d, x) ELSE d

\* deque(maxlen=...).append: a full deque drops its oldest element
deque_append(d, x, maxlen) ==
    IF maxlen = 0 THEN d
    ELSE IF Len(d) >= maxlen THEN Append(Tail(d), x)
    ELSE Append(d, x)

----------------------------------------------------------------------------
(* What is written to standard output *)

Text(s) == [t |-> "text", n |-> 0, s |-> s]
Newline == [t |-> "nl", n |-> 0, s |-> << >>]
CursorUp(k) == [t |-> "cuu", n |-> k, s |-> << >>]
ClearLine == [t |-> "el", n |-> 0, s |-> << >>]

ProgressPrefix == <<"P", "r", "o", "g", "r", "e", "s", "s", ":", " ">>
Placeholder == <<"-", "-">>

\* a mutated print: the line is cut like a tail row
print_cut(s) == <<Text(Take(s, TruncWidth)), Newline>>

\* print(line): the line and a newline
print(s) == <<Text(s), Newline>>

\* print("\n" * (lines + 1), end=""), only when self.ansi
reserve(isAnsi, n) == IF isAnsi THEN Repeat(Newline, n + 1) ELSE << >>

\* a mutated distance: the progress row is forgotten
up_short(n) == n

\* up = self.lines + 1: the cursor-up distance of a redraw
up(n) == n + 1

\* one tail slot: clear the row, write the buffered line cut to the display
\* width when slot i holds one, end the row
tail_row(b, i) ==
    <<ClearLine>> \o (IF i <= Len(b) THEN <<Text(Take(b[i], TruncWidth))>> ELSE << >>)
                  \o <<Newline>>

RECURSIVE tail_rows(_, _, _)
tail_rows(b, i, n) ==
    IF i > n THEN << >> ELSE tail_row(b, i) \o tail_rows(b, i + 1, n)

\* pct = self.percent or "--"
pct_text(p) == IF p # None THEN p[1] ELSE Placeholder

\* the redraw of update: cursor up, the progress row, the N tail rows
redraw(n, p, b) ==
    <<CursorUp(up(n)), ClearLine,
      Text(ProgressPrefix \o pct_text(p) \o <<"%">>), Newline>>
    \o tail_rows(b, 1, n)

----------------------------------------------------------------------------
(* LiveTail *)

\* LiveTail.__init__(lines)
LiveTailInit(n) ==
    /\ lines' = n
    /\ buf' = << >>
    /\ percent' = None
    /\ ansi' = tty
    /\ out' = reserve(tty, n)
    /\ received' = << >>
    /\ finished' = 0

\* LiveTail.update(line)
update(raw) ==
    LET s == rstrip(raw)
        m == re_search(s)
        newPercent == IF m # None THEN m ELSE percent
        newBuf == deque_append(buf, s, lines)
    IN  /\ received' = Append(received, raw)
        /\ IF IsEmpty(s)
           THEN UNCHANGED <<buf, percent, out>>
           ELSE /\ percent' = newPercent
                /\ buf' = newBuf
                /\ out' = IF ~ansi
                          THEN out \o print(s)
                          ELSE out \o redraw(lines, newPercent, newBuf)
        /\ UNCHANGED <<lines, ansi, finished>>

\* LiveTail.finish(): nothing is written in either mode
finish ==
    /\ finished' = finished + 1
    /\ UNCHANGED <<lines, buf, percent, ansi, out, received>>

----------------------------------------------------------------------------
(* The child process of a command *)

\* exit codes a child may end with (negative: killed by a signal)
ExitCodes == {0, 1, 2, -9}

\* the lines a child writes, each as readline delivers it
ChildLines == { <<NL>>, <<"a", NL>>, <<"5", "%", NL>> }

\* the child writes one more line: into the pipe when its output is captured
\* (Popen with stdout=PIPE), to the inherited stdout otherwise
ChildWrite ==
    /\ child = "running"
    /\ Len(emitted) < MaxChildLines
    /\ \E l \in ChildLines :
         /\ emitted' = Append(emitted, l)
         /\ pipe' = IF sc = "run" THEN pipe ELSE Append(pipe, l)
    /\ UNCHANGED <<tty, tailVars, pc, sc, mode, all_mode, docker, dockerActive,
                   child, childCode, line, returncode, exitStatus, answer, log>>

\* the child closes its output and keeps running
ChildClose ==
    /\ child = "running"
    /\ child' = "closed"
    /\ UNCHANGED <<tty, tailVars, pc, sc, mode, all_mode, docker, dockerActive,
                   childCode, pipe, emitted, line, returncode, exitStatus,
                   answer, log>>

\* the child ends with some exit code
ChildExit ==
    /\ child \in {"running", "closed"}
    /\ child' = "exited"
    /\ childCode' \in ExitCodes
    /\ UNCHANGED <<tty, tailVars, pc, sc, mode, all_mode, docker, dockerActive,
                   pipe, emitted, line, returncode, exitStatus, answer, log>>

----------------------------------------------------------------------------
(* stream_command *)

Call(name) == [ev |-> "call", name |-> name, code |-> 0]
Started(title) == [ev |-> "start", name |-> title, code |-> 0]
Ended(title, code) == [ev |-> "end", name |-> title, code |-> code]

\* the title of the command in progress
Running == LET starts == {i \in 1..Len(log) : log[i].ev = "start"}
           IN  log[CHOOSE i \in starts : \A j \in starts : j <= i].name

\* sys.exit(status)
exit(status) ==
    /\ pc' = "exited"
    /\ sc' = "idle"
    /\ exitStatus' = Some(status)

\* stream_command up to the point where it first waits for the child; before
\* are the calls the caller made since it last waited
stream_command(before, title, use_live_tail) ==
    /\ sc = "idle"
    /\ log' = log \o before \o <<Started(title)>>
    /\ child' = "running"
    /\ childCode' = 0
    /\ pipe' = << >>
    /\ emitted' = << >>
    /\ line' = << >>
    /\ returncode' = None
    /\ IF use_live_tail /\ tty
       THEN LiveTailInit(DefaultLines) /\ sc' = "loop"
       ELSE UNCHANGED tailVars /\ sc' = "run"

\* a mutated end-of-stream test: an empty pipe is taken for the end
at_eof_empty == pipe = << >>

\* proc.stdout.readline() returns "": nothing is left and the child has
\* closed its end
at_eof == pipe = << >> /\ child \in {"closed", "exited"}

\* for line in iter(proc.stdout.readline, ""): the next line is read
ReadLine ==
    /\ sc = "loop"
    /\ pipe # << >>
    /\ line' = Head(pipe)
    /\ pipe' = Tail(pipe)
    /\ sc' = "update"
    /\ UNCHANGED <<tty, tailVars, pc, mode, all_mode, docker, dockerActive,
                   child, childCode, emitted, returncode, exitStatus, answer, log>>

\* tail.update(line), the loop's body
LoopUpdate ==
    /\ sc = "update"
    /\ update(line)
    /\ sc' = "loop"
    /\ UNCHANGED <<tty, pc, mode, all_mode, docker, dockerActive, child,
                   childCode, pipe, emitted, line, returncode, exitStatus,
                   answer, log>>

\* readline returns "": the loop ends and proc.stdout.close() runs
ReadEof ==
    /\ sc = "loop"
    /\ at_eof
    /\ sc' = "wait"
    /\ UNCHANGED <<tty, tailVars, pc, mode, all_mode, docker, dockerActive,
                   child, childCode, pipe, emitted, line, returncode,
                   exitStatus, answer, log>>

\* proc.wait() returns once the child has ended
Wait ==
    /\ sc = "wait"
    /\ child = "exited"
    /\ returncode' = Some(childCode)
    /\ log' = Append(log, Ended(Running, childCode))
    /\ sc' = "finish"
    /\ UNCHANGED <<tty, tailVars, pc, mode, all_mode, docker, dockerActive,
                   child, childCode, pipe, emitted, line, exitStatus, answer>>

\* tail.finish(), last in the finally block
TailFinish ==
    /\ sc = "finish"
    /\ finish
    /\ sc' = "check"
    /\ UNCHANGED <<tty, pc, mode, all_mode, docker, dockerActive, child,
                   childCode, pipe, emitted, line, returncode, exitStatus,
                   answer, log>>

\* subprocess.run(cmd, check=False) returns once the child has ended
Run ==
    /\ sc = "run"
    /\ child = "exited"
    /\ returncode' = Some(childCode)
    /\ log' = Append(log, Ended(Running, childCode))
    /\ sc' = "check"
    /\ UNCHANGED <<tty, tailVars, pc, mode, all_mode, docker, dockerActive,
                   child, childCode, pipe, emitted, line, exitStatus, answer>>

\* a mutated test: only positive codes count as failure
fails_positive(code) == code > 0

\* "if proc.returncode:" any non-zero code is a failure
fails(code) == code # 0

\* if proc.returncode: log, sys.exit(1); else log OK and return to the caller
CheckReturn ==
    /\ sc = "check"
    /\ IF fails(returncode[1])
       THEN exit(1)
       ELSE sc' = "idle" /\ UNCHANGED <<pc, exitStatus>>
    /\ UNCHANGED <<tty, tailVars, mode, all_mode, docker, dockerActive, child,
                   childCode, pipe, emitted, line, returncode, answer, log>>

----------------------------------------------------------------------------
(* The operations *)

\* str.strip(): whitespace is removed from both ends
RECURSIVE strip(_)
strip(s) ==
    IF s = << >> THEN s
    ELSE IF Head(s) \in Whitespace THEN strip(Tail(s))
    ELSE IF Last(s) \in Whitespace THEN strip(Front(s))
    ELSE s

\* str.lower(), on the letters the answers use
lower(s) == [i \in 1..Len(s) |->
               CASE s[i] = "Y" -> "y" [] s[i] = "N" -> "n" [] OTHER -> s[i]]

DeleteAll == <<"D", "E", "L", "E", "T", "E", " ", "A", "L", "L">>

\* what the user may type at clear_all's prompt
ClearAnswers ==
    { DeleteAll,
      <<" ">> \o DeleteAll \o <<" ", "\t">>,
      <<"d", "e", "l", "e", "t", "e", " ", "a", "l", "l">>,
      <<"D", "E", "L", "E", "T", "E">>,
      DeleteAll \o <<"!">>,
      <<"y">>,
      << >> }

\* what the user may type at do_restore's prompt
OverwriteAnswers == { <<"y">>, <<"Y">>, <<"n">>, <<"y", "e", "s">>, << >> }

\* a mutated confirmation: any non-blank answer is accepted
confirmed_nonblank(input) == strip(input) # << >>

\* input(...).strip() != "DELETE ALL" is false
confirmed(input) == strip(input) = DeleteAll

\* input("Overwrite? y/N: ").lower() != 'y' is false
overwrite(input) == lower(input) = <<"y">>

\* main up to the dispatch: build_env exits with 2 when the key file is missing
Main ==
    /\ pc = "main"
    /\ \E keyExists \in BOOLEAN :
         IF keyExists
         THEN pc' = mode /\ UNCHANGED <<sc, exitStatus>>
         ELSE exit(2)
    /\ UNCHANGED <<tty, tailVars, mode, all_mode, docker, dockerActive, child,
                   childCode, pipe, emitted, line, returncode, answer, log>>

\* main returns: the program ends with status 0
return ==
    /\ pc' = "done"
    /\ exitStatus' = Some(0)

\* --list: list_archives
List ==
    /\ pc = "list"
    /\ return
    /\ log' = Append(log, Call("list_archives"))
    /\ UNCHANGED <<tty, tailVars, sc, mode, all_mode, docker, dockerActive,
                   child, childCode, pipe, emitted, line, returncode, answer>>

\* clear_all up to the delete command: the prompt, then return or borg delete
ClearAll ==
    /\ pc = "clear_all"
    /\ \E input \in ClearAnswers :
         /\ answer' = Some(input)
         /\ IF ~confirmed(input)
            THEN /\ return
                 /\ UNCHANGED <<tailVars, sc, child, childCode, pipe, emitted,
                                line, returncode, log>>
            ELSE /\ stream_command(<< >>, "DELETE", FALSE)
                 /\ pc' = "clear_compact"
                 /\ UNCHANGED exitStatus
    /\ UNCHANGED <<tty, mode, all_mode, docker, dockerActive>>

\* clear_all after the delete command returned: borg compact
ClearCompact ==
    /\ pc = "clear_compact"
    /\ stream_command(<< >>, "Compact", FALSE)
    /\ pc' = "clear_return"
    /\ UNCHANGED <<tty, mode, all_mode, docker, dockerActive, exitStatus, answer>>

\* clear_all after the compact command returned
ClearReturn ==
    /\ pc = "clear_return"
    /\ sc = "idle"
    /\ return
    /\ UNCHANGED <<tty, tailVars, sc, mode, all_mode, docker, dockerActive,
                   child, childCode, pipe, emitted, line, returncode, answer, log>>

\* do_backup up to the create command: Docker is stopped when it is active
\* and all_mode is set, the system state and the SQL dumps are taken
Backup ==
    /\ pc = "backup"
    /\ docker' = (all_mode /\ dockerActive)
    /\ dockerActive' = IF docker' THEN FALSE ELSE dockerActive
    /\ stream_command(
         (IF docker' THEN <<Call("docker_stop")>> ELSE << >>)
           \o (IF all_mode
               THEN <<Call("save_system_state"), Call("sql_dump")>> ELSE << >>),
         "BACKUP", TRUE)
    /\ pc' = "info"
    /\ UNCHANGED <<tty, mode, all_mode, exitStatus, answer>>

\* archive_info: borg info
Info ==
    /\ pc = "info"
    /\ stream_command(<< >>, "Info", TRUE)
    /\ pc' = "info_last"
    /\ UNCHANGED <<tty, mode, all_mode, docker, dockerActive, exitStatus, answer>>

\* archive_info after borg info returned: borg list --last 5
InfoLast ==
    /\ pc = "info_last"
    /\ stream_command(<< >>, "Last 5", TRUE)
    /\ pc' = "info_return"
    /\ UNCHANGED <<tty, mode, all_mode, docker, dockerActive, exitStatus, answer>>

\* do_backup after archive_info returned: the dumps are removed and Docker
\* is started again when it had been stopped
BackupEnd ==
    /\ pc = "info_return"
    /\ mode = "backup"
    /\ sc = "idle"
    /\ return
    /\ log' = log \o (IF docker THEN <<Call("docker_start")>> ELSE << >>)
    /\ dockerActive' = IF docker THEN TRUE ELSE dockerActive
    /\ UNCHANGED <<tty, tailVars, sc, mode, all_mode, docker, child, childCode,
                   pipe, emitted, line, returncode, answer>>

\* do_restore up to archive_info's first command: exit 2 when the target is
\* missing, exit 1 (select_archive) when the repository holds no archive
Restore ==
    /\ pc = "restore"
    /\ \E targetExists \in BOOLEAN, haveArchives \in BOOLEAN :
         IF ~targetExists
         THEN /\ exit(2)
              /\ UNCHANGED <<tailVars, child, childCode, pipe, emitted, line,
                             returncode, log>>
         ELSE IF ~haveArchives
         THEN /\ exit(1)
              /\ log' = Append(log, Call("list_archives"))
              /\ UNCHANGED <<tailVars, child, childCode, pipe, emitted, line,
                             returncode>>
         ELSE /\ stream_command(<<Call("list_archives")>>, "Info", TRUE)
              /\ pc' = "info_last"
              /\ UNCHANGED exitStatus
    /\ UNCHANGED <<tty, mode, all_mode, docker, dockerActive, answer>>

\* do_restore after archive_info returned: the prompt, then return or extract
RestoreExtract ==
    /\ pc = "info_return"
    /\ mode = "restore"
    /\ \E input \in OverwriteAnswers :
         /\ answer' = Some(input)
         /\ IF ~overwrite(input)
            THEN /\ sc = "idle"
                 /\ return
                 /\ UNCHANGED <<tailVars, sc, child, childCode, pipe, emitted,
                                line, returncode, log>>
            ELSE /\ stream_command(<< >>, "RESTORE", TRUE)
                 /\ pc' = "restore_end"
                 /\ UNCHANGED exitStatus
    /\ UNCHANGED <<tty, mode, all_mode, docker, dockerActive>>

\* do_restore after the extract command returned
RestoreEnd ==
    /\ pc = "restore_end"
    /\ sc = "idle"
    /\ return
    /\ log' = log \o (IF all_mode
                      THEN <<Call("sql_restore"), Call("restore_system_state"),
                             Call("maybe_fix_lxd_agent")>>
                      ELSE << >>)
    /\ UNCHANGED <<tty, tailVars, sc, mode, all_mode, docker, dockerActive,
                   child, childCode, pipe, emitted, line, returncode, answer>>

\* the program is started with one of the four operations
Init ==
    /\ tty \in BOOLEAN
    /\ lines = 0 /\ buf = << >> /\ percent = None /\ ansi = FALSE
    /\ out = << >> /\ received = << >> /\ finished = 0
    /\ pc = "main" /\ sc = "idle"
    /\ mode \in {"list", "clear_all", "backup", "restore"}
    /\ all_mode \in BOOLEAN
    /\ docker = FALSE
    /\ dockerActive \in BOOLEAN
    /\ child = "none" /\ childCode = 0 /\ pipe = << >> /\ emitted = << >>
    /\ line = << >> /\ returncode = None /\ exitStatus = None
    /\ answer = None /\ log = << >>

Next ==
    \/ Main \/ List
    \/ ClearAll \/ ClearCompact \/ ClearReturn
    \/ Backup \/ Info \/ InfoLast \/ BackupEnd
    \/ Restore \/ RestoreExtract \/ RestoreEnd
    \/ ChildWrite \/ ChildClose \/ ChildExit
    \/ ReadLine \/ LoopUpdate \/ ReadEof \/ Wait \/ TailFinish
    \/ Run \/ CheckReturn

Spec == Init /\ [][Next]_vars

----------------------------------------------------------------------------
(* The lines fed to update.  Each is what one readline of a text stream   *)
(* can deliver (text without an inner newline, then at most one newline), *)
(* or the empty string; one carries two trailing newlines to exercise     *)
(* rstrip.                                                                 *)

LongLine == Repeat("x", TruncWidth + 1)

Lines ==
    { << >>,
      <<NL>>,
      <<"a", NL>>,
      <<" ", NL, NL>>,
      <<"1", "2", "3", "4", "%", NL>>,
      <<"a", "7", "%", "b", "1", "0", "0", "%">>,
      <<"9", "9", "9", "%", NL>>,
      LongLine \o <<NL>> }

----------------------------------------------------------------------------
(* The program is idle in the LiveTail harness *)

ProgIdle ==
    /\ pc = "harness" /\ sc = "idle" /\ mode = "none" /\ all_mode = FALSE
    /\ docker = FALSE /\ dockerActive = FALSE
    /\ child = "none" /\ childCode = 0 /\ pipe = << >> /\ emitted = << >>
    /\ line = << >> /\ returncode = None /\ exitStatus = None
    /\ answer = None /\ log = << >>

\* a LiveTail(N) constructed in either mode
TailInit ==
    /\ tty \in BOOLEAN
    /\ \E n \in 1..MaxN :
          /\ lines = n
          /\ buf = << >>
          /\ percent = None
          /\ ansi = tty
          /\ out = reserve(tty, n)
          /\ received = << >>
          /\ finished = 0
    /\ ProgIdle

\* some caller passes a line to update
Update ==
    /\ finished = 0
    /\ Len(received) < MaxCalls
    /\ \E raw \in Lines : update(raw)
    /\ UNCHANGED <<tty, progVars>>

\* the caller ends the session
Finish ==
    /\ finished = 0
    /\ finish
    /\ UNCHANGED <<tty, progVars>>

TailNext == Update \/ Finish

SpecTail == TailInit /\ [][TailNext]_vars

----------------------------------------------------------------------------
(* Vocabulary of the claims about LiveTail, stated over the history of     *)
(* update calls rather than over the code's own helpers.                   *)

\* s without its trailing newlines
Stripped(s) ==
    LET k == CHOOSE i \in 0..Len(s) :
                 /\ i = 0 \/ s[i] # NL
                 /\ \A j \in (i + 1)..Len(s) : s[j] = NL
    IN  SubSeq(s, 1, k)

\* the lines received so far that are non-empty once stripped, in arrival order
Kept(hist) ==
    SelectSeq([i \in 1..Len(hist) |-> Stripped(hist[i])], LAMBDA x : x # << >>)

LastK(s, k) == SubSeq(s, Len(s) - k + 1, Len(s))
Smaller(a, b) == IF a < b THEN a ELSE b

\* the occurrences <<i, k>> in s of k digits (1 to 3) at i followed by '%'
Occurrences(s) ==
    {o \in (1..Len(s)) \X (1..3) :
        /\ o[1] + o[2] <= Len(s)
        /\ \A j \in o[1]..(o[1] + o[2] - 1) : s[j] \in Digits
        /\ s[o[1] + o[2]] = "%"}

HasPattern(s) == Occurrences(s) # {}

\* the digit string of the leftmost occurrence
LeftmostPct(s) ==
    LET occ == Occurrences(s)
        o == CHOOSE x \in occ : \A y \in occ : x[1] <= y[1]
    IN  SubSeq(s, o[1], o[1] + o[2] - 1)

DigitValue(c) ==
    CASE c = "0" -> 0 [] c = "1" -> 1 [] c = "2" -> 2 [] c = "3" -> 3
      [] c = "4" -> 4 [] c = "5" -> 5 [] c = "6" -> 6 [] c = "7" -> 7
      [] c = "8" -> 8 [] c = "9" -> 9

\* the number a digit string denotes
RECURSIVE Number(_)
Number(d) == IF d = << >> THEN 0 ELSE 10 * Number(Front(d)) + DigitValue(Last(d))

\* the argument of the update call a step makes
IsUpdateStep == received' # received
Arg == Last(received')

----------------------------------------------------------------------------
(* C1: after every update the tail buffer holds the last min(count, N) of *)
(* the lines received so far that are non-empty once stripped, in arrival *)
(* order; so it never holds more than N lines and the oldest is evicted.  *)
C1_TailIsLastLines ==
    LET kept == Kept(received) IN
    /\ buf = LastK(kept, Smaller(Len(kept), lines))
    /\ Len(buf) <= lines

\* more non-empty lines than N have arrived, with an empty one among them
C1_Witness ==
    /\ Len(Kept(received)) > lines
    /\ Len(Kept(received)) < Len(received)
    /\ Len(buf) = lines
    /\ buf[1] # Kept(received)[1]

(* C2: an update with a non-empty line holding 1-3 digits followed by '%' *)
(* sets ProgressState to the digits of the leftmost occurrence; one with  *)
(* no such pattern leaves it unchanged; once set it is never absent again.*)
C2_PercentFollowsPattern ==
    [][ /\ IsUpdateStep =>
             \A s \in {Stripped(Arg)} :
             s # << >> => IF HasPattern(s)
                          THEN percent' = Some(LeftmostPct(s))
                          ELSE percent' = percent
        /\ percent # None => percent' # None ]_vars

\* a percentage was set, overwritten by a later one, and kept by a plain line
C2_Witness ==
    /\ Len(received) = 3
    /\ received[1] = <<"a", "7", "%", "b", "1", "0", "0", "%">>
    /\ received[2] = <<"1", "2", "3", "4", "%", NL>>
    /\ received[3] = <<"a", NL>>
    /\ percent = Some(<<"2", "3", "4">>)

(* C3: an update whose line is empty once stripped changes neither the    *)
(* tail buffer nor ProgressState and writes nothing, in both modes.       *)
C3_EmptyLineIsNoOp ==
    [][ IsUpdateStep /\ Stripped(Arg) = << >> => UNCHANGED <<buf, percent, out>> ]_vars

\* an empty line arrived after a line with a percentage, in interactive mode
C3_Witness ==
    /\ ansi
    /\ Len(received) = 2
    /\ received[1] = <<"a", "7", "%", "b", "1", "0", "0", "%">>
    /\ received[2] = <<NL>>
    /\ buf = <<received[1]>>
    /\ percent = Some(<<"7">>)

----------------------------------------------------------------------------
(* Reading the output back as a terminal would: rows and cursor movement  *)

IsNl(x) == x.t = "nl"
IsCuu(x) == x.t = "cuu"
IsControl(x) == x.t \in {"cuu", "el"}

\* the positions 1..k of o holding a token satisfying Test
Where(o, k, Test(_)) == {i \in 1..k : Test(o[i])}

RECURSIVE SumUp(_, _)
SumUp(o, idx) ==
    IF idx = {} THEN 0
    ELSE LET i == CHOOSE x \in idx : TRUE IN o[i].n + SumUp(o, idx \ {i})

\* the row the cursor is on after the first k things written, counted down
\* from the row it was on when the LiveTail was constructed
CursorRow(o, k) == Cardinality(Where(o, k, IsNl)) - SumUp(o, Where(o, k, IsCuu))

\* what was written since the last cursor-up, the cursor-up included
LastBlock(o) ==
    LET ups == Where(o, Len(o), IsCuu)
        start == CHOOSE i \in ups : \A j \in ups : j <= i
    IN  SubSeq(o, start, Len(o))

\* row r of a block: what lies between its (r-1)th and its rth newline
BlockRow(blk, r) ==
    LET nls == Where(blk, Len(blk), IsNl)
        nth(q) == CHOOSE i \in nls : Cardinality({j \in nls : j <= i}) = q
    IN  SubSeq(blk, IF r = 1 THEN 2 ELSE nth(r - 1) + 1, nth(r) - 1)

\* whether any line received so far carried a percentage
Observed(hist) == \E i \in 1..Len(hist) : HasPattern(Kept(hist)[i])

(* C4: in interactive mode every update with a non-empty line moves the   *)
(* cursor up N+1 rows and rewrites exactly N+1 rows: 'Progress: P%' with  *)
(* P the current ProgressState, or '--' while no percentage has been      *)
(* observed, then N tail rows, slot i showing buffered line i cut to 160  *)
(* characters or blank; the cursor ends on the row it started from and    *)
(* never leaves the N+1 rows reserved at construction.                    *)
C4_RedrawIsInPlace ==
    ansi =>
      \A kept \in {Kept(received)} :
        /\ Cardinality(Where(out, Len(out), IsCuu)) = Len(kept)
        /\ CursorRow(out, Len(out)) = lines + 1
        /\ \A k \in 0..Len(out) : CursorRow(out, k) \in 0..(lines + 1)
        /\ kept # << >> =>
             \A blk \in {LastBlock(out)} :
               /\ blk[1] = CursorUp(lines + 1)
               /\ Last(blk) = Newline
               /\ Cardinality(Where(blk, Len(blk), IsNl)) = lines + 1
               /\ BlockRow(blk, 1) =
                    <<ClearLine,
                      Text(ProgressPrefix
                           \o (IF Observed(kept) THEN percent[1] ELSE <<"-", "-">>)
                           \o <<"%">>)>>
               /\ \A i \in 1..lines :
                    BlockRow(blk, i + 1) =
                      IF i <= Len(buf)
                      THEN <<ClearLine, Text(SubSeq(buf[i], 1, Smaller(Len(buf[i]), 160)))>>
                      ELSE <<ClearLine>>

\* a redraw before any percentage, one slot still blank, one line cut
C4_Witness ==
    /\ ansi
    /\ lines = 2
    /\ percent = None
    /\ Len(buf) = 1
    /\ Len(buf[1]) > TruncWidth
    /\ Len(LastBlock(out)[6].s) = TruncWidth

(* C5: in non-interactive mode the output is exactly the non-empty lines, *)
(* each once, without its trailing newlines, in arrival order, each       *)
(* followed by one newline; no cursor-up or clear-line is written and     *)
(* construction reserves no rows.                                         *)
C5_PlainOutput ==
    ~ansi =>
      \A kept \in {Kept(received)} :
        /\ out = [i \in 1..(2 * Len(kept)) |->
                    IF i % 2 = 1 THEN Text(kept[(i + 1) \div 2]) ELSE Newline]
        /\ \A i \in 1..Len(out) : ~IsControl(out[i])

\* the scenario "a", "", "b" extended by a line wider than a tail row
C5_Witness ==
    /\ ~ansi
    /\ Len(received) = 3
    /\ received[1] = <<"a", NL>>
    /\ received[2] = << >>
    /\ Len(received[3]) > TruncWidth
    /\ Len(out) = 4

(* C6: ProgressState is always either absent or a percentage in 0..100.   *)
C6_PercentInRange ==
    percent # None => Number(percent[1]) \in 0..100

----------------------------------------------------------------------------
(* Vocabulary of the claims about the driving code *)

HasStarted(title) == \E i \in 1..Len(log) : log[i] = Started(title)
Called(name) == \E i \in 1..Len(log) : log[i] = Call(name)
Ended0(title) == Ended(title, 0)

\* the command in progress, or the last one run, took the live-tail branch
LiveCommand ==
    /\ tty
    /\ \E i \in 1..Len(log) : log[i].ev = "start"
    /\ Running \in {"BACKUP", "Info", "Last 5", "RESTORE"}

\* the answer is 'DELETE ALL' with nothing but whitespace around it
IsDeleteAll(input) ==
    \E i \in 1..Len(input), j \in 1..Len(input) :
        /\ SubSeq(input, i, j) = <<"D", "E", "L", "E", "T", "E", " ", "A", "L", "L">>
        /\ \A k \in 1..(i - 1) : input[k] \in {" ", "\t", "\n"}
        /\ \A k \in (j + 1)..Len(input) : input[k] \in {" ", "\t", "\n"}

C8_NonZeroExitIsFatal ==
    \A i \in 1..Len(log) :
        log[i].ev = "end" =>
            IF log[i].code # 0
            THEN /\ i = Len(log)
                 /\ \/ sc \in {"finish", "check"}
                    \/ pc = "exited" /\ exitStatus = Some(1)
            ELSE i = Len(log) /\ sc = "idle" =>
                     pc # "exited" /\ exitStatus # Some(1)

\* a second command killed by a signal in the live-tail branch
C8_Witness ==
    /\ tty
    /\ pc = "exited"
    /\ exitStatus = Some(1)
    /\ Last(log) = Ended("Info", -9)
    /\ \E i \in 1..Len(log) : log[i] = Ended("BACKUP", 0)

\* a failed command in the pass-through branch
C8_WitnessPassThrough ==
    /\ pc = "exited"
    /\ exitStatus = Some(1)
    /\ Last(log) = Ended("Compact", 2)

(* C9: in do_backup with all_mode, whenever docker_stop stopped Docker,   *)
(* docker_start has been called by the time the program ends, on every    *)
(* path, those where a command exits with a non-zero code included.       *)
C9_DockerRestarted ==
    pc \in {"done", "exited"} /\ Called("docker_stop") => Called("docker_start")

(* C10: in clear_all 'borg delete' is started only if the answer, with    *)
(* surrounding whitespace removed, is exactly 'DELETE ALL'; for any other *)
(* answer no command is run and clear_all returns; 'borg compact' is      *)
(* started only after the delete command ended with exit code zero.       *)
C10_DeleteNeedsConfirmation ==
    /\ HasStarted("DELETE") => answer # None /\ IsDeleteAll(answer[1])
    /\ mode = "clear_all" /\ answer # None /\ ~IsDeleteAll(answer[1]) =>
           log = << >> /\ pc = "done"
    /\ \A i \in 1..Len(log) :
           log[i] = Started("Compact") =>
               \E j \in 1..(i - 1) : log[j] = Ended0("DELETE")

\* the answer had whitespace around it and both commands were started
C10_Witness ==
    /\ HasStarted("Compact")
    /\ answer # None
    /\ answer[1] # <<"D", "E", "L", "E", "T", "E", " ", "A", "L", "L">>

\* another answer: clear_all returned at once
C10_WitnessRefused ==
    /\ mode = "clear_all"
    /\ answer = Some(<<"d", "e", "l", "e", "t", "e", " ", "a", "l", "l">>)
    /\ pc = "done"

====
